---- MODULE Spec2Model ----
(***************************************************************************)
(* Model of the Customer Insights Dashboard frontend: AppComponent         *)
(* (frontend/src/app/app.component.ts) and AppService (app.service.ts).    *)
(* The component's fields and the requests in flight are the state; every  *)
(* public method and every subscribe callback is one action.  The HTTP     *)
(* backend is the environment: it answers each request in flight, in any   *)
(* order, with a response or an error.  The /records requests in flight    *)
(* are kept in issue order; those of the other three endpoints, whose      *)
(* callbacks cannot tell one subscription from another, are kept as a bag. *)
(***************************************************************************)
EXTENDS Integers, Sequences, FiniteSets, Bags, TLC

VARIABLES
    mounted,                \* ngOnInit has run (Angular calls it once)
    summary, loadingSummary, summaryError,
    records, recordsLoading, recordsError,
    page, pageSize, totalPages,
    filterStatus, filterMinHealth, filterSearch,
    pieData,
    healthBarLabels, healthBarDatasets,
    notificationsLineLabels, notificationsLineDatasets,
    topAccountsBarLabels, topAccountsBarDatasets,
    recordsHttp,            \* /records requests in flight, in issue order
    otherHttp,              \* the other requests in flight (a bag)
    latest,                 \* fate of the /records request issued last
    lastAnswer,             \* the /records response delivered last, if any
    errSinceIssue,          \* a /records error arrived after the last issue
    summaryErrSinceIssue    \* a /summary error arrived after the last issue

summaryVars == <<summary, loadingSummary, summaryError, pieData,
                 summaryErrSinceIssue>>
filterVars  == <<filterStatus, filterMinHealth, filterSearch>>
healthVars  == <<healthBarLabels, healthBarDatasets>>
notifVars   == <<notificationsLineLabels, notificationsLineDatasets>>
topVars     == <<topAccountsBarLabels, topAccountsBarDatasets>>
recVars     == <<records, recordsLoading, recordsError, totalPages>>
netVars     == <<recordsHttp, otherHttp, latest, lastAnswer, errSinceIssue>>

vars == <<mounted, summary, loadingSummary, summaryError,
          records, recordsLoading, recordsError, page, pageSize, totalPages,
          filterStatus, filterMinHealth, filterSearch, pieData,
          healthBarLabels, healthBarDatasets,
          notificationsLineLabels, notificationsLineDatasets,
          topAccountsBarLabels, topAccountsBarDatasets,
          recordsHttp, otherHttp, latest, lastAnswer, errSinceIssue,
          summaryErrSinceIssue>>

----------------------------------------------------------------------------
(* Bounds of the model *)

MaxOverlap == 1     \* requests in flight beyond the first of their endpoint

----------------------------------------------------------------------------
(* Optional values: `x?: T`, undefined and null *)

UndefinedStr == [tag |-> "undefined", val |-> ""]
Str(s)       == [tag |-> "string", val |-> s]

UndefinedNum == [tag |-> "undefined", val |-> 0]
NullNum      == [tag |-> "null", val |-> 0]
Num(n)       == [tag |-> "number", val |-> n]

\* a truthiness test in place of `!= null`: drops 0
NotNullish_Truthy(x) == x.tag = "number" /\ x.val # 0

\* `x != null` of JavaScript: false for both null and undefined
NotNullish(x) == x.tag \notin {"undefined", "null"}

\* truthiness of a string: only '' is falsy
Truthy(s) == s # ""

\* `s || undefined`
OrUndefined(s) == IF Truthy(s) THEN Str(s) ELSE UndefinedStr

----------------------------------------------------------------------------
(* AppService: the four requests *)

baseUrl == "http://localhost:8000"

SummaryUrl       == "http://localhost:8000/summary"
RecordsUrl       == "http://localhost:8000/records"
HealthUrl        == "http://localhost:8000/analytics/health-by-status"
NotificationsUrl == "http://localhost:8000/analytics/notifications-over-time"

\* HttpParams.set(name, value): replaces the entry of that name or appends it;
\* the value is stored as its string form
ParamsSet(params, name, value) ==
    IF \E i \in DOMAIN params : params[i][1] = name
    THEN [i \in DOMAIN params |->
            IF params[i][1] = name THEN <<name, value>> ELSE params[i]]
    ELSE Append(params, <<name, value>>)

getSummary == [method |-> "GET", url |-> SummaryUrl, params |-> <<>>]

getRecords(p, ps, status, minHealth, search) ==
    LET p0 == ParamsSet(ParamsSet(<<>>, "page", ToString(p)),
                        "page_size", ToString(ps))
        p1 == IF status.tag = "string" /\ Truthy(status.val)
              THEN ParamsSet(p0, "status", status.val) ELSE p0
        p2 == IF NotNullish(minHealth)
              THEN ParamsSet(p1, "min_health", ToString(minHealth.val)) ELSE p1
        p3 == IF search.tag = "string" /\ Truthy(search.val)
              THEN ParamsSet(p2, "search", search.val) ELSE p2
    IN  [method |-> "GET", url |-> RecordsUrl, params |-> p3]

\* a wrong path
getHealthByStatus_WrongPath ==
    [method |-> "GET", url |-> "http://localhost:8000/analytics/health",
     params |-> <<>>]

getHealthByStatus == [method |-> "GET", url |-> HealthUrl, params |-> <<>>]

getNotificationsOverTime ==
    [method |-> "GET", url |-> NotificationsUrl, params |-> <<>>]

----------------------------------------------------------------------------
(* Values the environment supplies *)

Acct(label, nb) ==
    [account_label |-> label, subscription_status |-> "active",
     health_score |-> 50, automation_count |-> 1, total_records |-> 1,
     messages_processed |-> 1, notifications_billed |-> nb,
     churn_risk |-> "low"]

PageEmpty == <<>>
PageTies  == <<Acct("a", 3), Acct("b", 7), Acct("c", 3)>>
PageSix   == <<Acct("a", 1), Acct("b", 5), Acct("c", 2),
               Acct("d", 5), Acct("e", 0), Acct("f", 4)>>

Resp(tp, items) ==
    [page |-> 1, page_size |-> 5, total_items |-> Len(items),
     total_pages |-> tp, items |-> items]

SampleResponses == {Resp(0, PageEmpty), Resp(1, PageTies), Resp(2, PageSix)}

Summ(active, inactive) ==
    [total_accounts |-> active + inactive, active_accounts |-> active,
     inactive_accounts |-> inactive, total_notifications_billed |-> 10,
     avg_notifications_billed_per_active |-> 2, total_messages_processed |-> 20,
     avg_messages_per_account |-> 4, avg_health_score |-> 50,
     at_risk_accounts |-> 1, churned_accounts |-> 0]

NoSummary == [tag |-> "undefined", val |-> Summ(0, 0)]
SomeSummary(d) == [tag |-> "object", val |-> d]

SampleSummaries == {Summ(3, 2)}

SampleHealth ==
    { <<[status |-> "healthy", account_count |-> 4],
        [status |-> "at_risk", account_count |-> 1]>> }

SampleNotifications ==
    { <<[date |-> "2024-01", total_notifications_billed |-> 9],
        [date |-> "2024-02", total_notifications_billed |-> 12]>> }

\* what the user leaves in the three filter controls
SampleFilters ==
    { <<"", UndefinedNum, "">>, <<"active", Num(0), "acme">> }

StatusInputs    == {"", "active"}
MinHealthInputs == {UndefinedNum, NullNum, Num(0), Num(50)}
SearchInputs    == {"", "acme"}
AllFilters == StatusInputs \X MinHealthInputs \X SearchInputs

----------------------------------------------------------------------------
(* Array helpers *)

Slice(s, from, to) ==
    IF Len(s) <= from THEN <<>>
    ELSE SubSeq(s, from + 1, IF to < Len(s) THEN to ELSE Len(s))

\* a comparator that orders ascending
compare_Ascending(a, b) == a.notifications_billed - b.notifications_billed

\* the comparator of updateTopAccountsChart
compare(a, b) == b.notifications_billed - a.notifications_billed

\* position at which a stable sort places x among the already sorted s:
\* after every element that does not compare greater than x
RECURSIVE InsertSorted(_, _)
InsertSorted(x, s) ==
    IF s = <<>> THEN <<x>>
    ELSE IF compare(Head(s), x) <= 0
         THEN <<Head(s)>> \o InsertSorted(x, Tail(s))
         ELSE <<x>> \o s

\* Array.prototype.sort with `compare` (stable)
RECURSIVE SortFrom(_, _)
SortFrom(s, acc) ==
    IF s = <<>> THEN acc ELSE SortFrom(Tail(s), InsertSorted(Head(s), acc))

Sort(s) == SortFrom(s, <<>>)

\* sorted.map(r => r.account_label), sorted.map(r => r.notifications_billed)
accountLabels(s) == [i \in DOMAIN s |-> s[i].account_label]
notificationsBilled(s) == [i \in DOMAIN s |-> s[i].notifications_billed]

\* updateTopAccountsChart: the two fields it assigns, from `recs`
TopSorted(recs) == Slice(Sort(recs), 0, 5)
TopLabels(recs) == accountLabels(TopSorted(recs))
TopDatasets(recs) ==
    <<[data |-> notificationsBilled(TopSorted(recs)),
       label |-> "Notifications Billed"]>>

----------------------------------------------------------------------------
(* Bookkeeping of the requests in flight *)

\* the /records requests in flight, by position
InFlight == DOMAIN recordsHttp

\* copies of `req` in flight, for the other endpoints
Outstanding(req) == CopiesIn(req, otherHttp)

\* recordsHttp without its i-th entry: the subscription has completed
Remove(i) ==
    SubSeq(recordsHttp, 1, i - 1) \o SubSeq(recordsHttp, i + 1, Len(recordsHttp))

\* otherHttp without one copy of `req`: the subscription has completed
Complete(req) == otherHttp (-) SetToBag({req})

\* recordsHttp[i] is the /records request that was issued last
IsLatest(i) ==
    /\ latest.state = "pending"
    /\ i = Len(recordsHttp)

Fate(state, resp) == [state |-> state, resp |-> resp]
NoResp == Resp(0, <<>>)

----------------------------------------------------------------------------
(* AppComponent *)

Init ==
    /\ mounted = FALSE
    /\ summary = NoSummary
    /\ loadingSummary = FALSE
    /\ summaryError = UndefinedStr
    /\ records = <<>>
    /\ recordsLoading = FALSE
    /\ recordsError = UndefinedStr
    /\ page = 1
    /\ pageSize = 5
    /\ totalPages = 1
    /\ filterStatus = ""
    /\ filterMinHealth = UndefinedNum
    /\ filterSearch = ""
    /\ pieData = <<0, 0>>
    /\ healthBarLabels = <<>>
    /\ healthBarDatasets = <<[data |-> <<>>, label |-> "Accounts"]>>
    /\ notificationsLineLabels = <<>>
    /\ notificationsLineDatasets = <<[data |-> <<>>, label |-> "Notifications Billed"]>>
    /\ topAccountsBarLabels = <<>>
    /\ topAccountsBarDatasets = <<[data |-> <<>>, label |-> "Notifications Billed"]>>
    /\ recordsHttp = <<>>
    /\ otherHttp = EmptyBag
    /\ latest = Fate("none", NoResp)
    /\ lastAnswer = <<>>
    /\ errSinceIssue = FALSE
    /\ summaryErrSinceIssue = FALSE

\* the request loadRecords hands to the service, from the component's fields
recordsRequest(p, ps, fStatus, fMinHealth, fSearch) ==
    LET status    == OrUndefined(fStatus)
        minHealth == IF NotNullish(fMinHealth) THEN fMinHealth ELSE UndefinedNum
        search    == OrUndefined(fSearch)
    IN  getRecords(p, ps, status, minHealth, search)

\* handing a request to HttpClient and subscribing: it is in flight
Send(req) == recordsHttp' = Append(recordsHttp, req)
SendOther(reqs) == otherHttp' = otherHttp (+) SetToBag(reqs)

\* the first two statements of loadSummary()
loadSummaryFlags ==
    /\ loadingSummary' = TRUE
    /\ summaryError' = UndefinedStr
    /\ summaryErrSinceIssue' = FALSE

\* loadRecords() without the reset of recordsError
loadRecordsFlags_KeepsError ==
    /\ recordsLoading' = TRUE
    /\ UNCHANGED recordsError
    /\ latest' = Fate("pending", NoResp)
    /\ errSinceIssue' = FALSE
    /\ UNCHANGED lastAnswer

\* the first two statements of loadRecords()
loadRecordsFlags ==
    /\ recordsLoading' = TRUE
    /\ recordsError' = UndefinedStr
    /\ latest' = Fate("pending", NoResp)
    /\ errSinceIssue' = FALSE
    /\ UNCHANGED lastAnswer

\* the body of loadRecords(), on the page and filters the caller has just
\* assigned
loadRecordsWith(p, fStatus, fMinHealth, fSearch) ==
    /\ loadRecordsFlags
    /\ Send(recordsRequest(p, pageSize, fStatus, fMinHealth, fSearch))
    /\ UNCHANGED otherHttp

\* requests in flight that overlap an earlier one to the same endpoint
Overlap ==
    (IF recordsHttp = <<>> THEN 0 ELSE Len(recordsHttp) - 1)
      + (BagCardinality(otherHttp) - Cardinality(BagToSet(otherHttp)))

\* room left under the bound on overlapping requests
MayIssue == recordsHttp = <<>> \/ Overlap < MaxOverlap
MayIssueOther(req) == Outstanding(req) = 0 \/ Overlap < MaxOverlap

\* loadSummary(), called on its own
loadSummary ==
    /\ mounted /\ MayIssueOther(getSummary)
    /\ loadSummaryFlags
    /\ SendOther({getSummary})
    /\ UNCHANGED <<mounted, summary, pieData, recVars, page, pageSize,
                   filterVars, healthVars, notifVars, topVars, recordsHttp,
                   latest, lastAnswer, errSinceIssue>>

\* loadRecords(), called on its own: the current page and filters
loadRecords ==
    /\ mounted /\ MayIssue
    /\ loadRecordsWith(page, filterStatus, filterMinHealth, filterSearch)
    /\ UNCHANGED <<mounted, summaryVars, records, totalPages, page, pageSize,
                   filterVars, healthVars, notifVars, topVars>>

\* loadHealthByStatus(), called on its own
loadHealthByStatus ==
    /\ mounted /\ MayIssueOther(getHealthByStatus)
    /\ SendOther({getHealthByStatus})
    /\ UNCHANGED <<mounted, summaryVars, recVars, page, pageSize, filterVars,
                   healthVars, notifVars, topVars, recordsHttp, latest,
                   lastAnswer, errSinceIssue>>

\* loadNotificationsOverTime(), called on its own
loadNotificationsOverTime ==
    /\ mounted /\ MayIssueOther(getNotificationsOverTime)
    /\ SendOther({getNotificationsOverTime})
    /\ UNCHANGED <<mounted, summaryVars, recVars, page, pageSize, filterVars,
                   healthVars, notifVars, topVars, recordsHttp, latest,
                   lastAnswer, errSinceIssue>>

\* ngOnInit(): loadSummary(), loadRecords(), loadHealthByStatus() and
\* loadNotificationsOverTime(), in this order
ngOnInit ==
    /\ ~mounted
    /\ mounted' = TRUE
    /\ loadSummaryFlags
    /\ loadRecordsFlags
    /\ Send(recordsRequest(page, pageSize, filterStatus, filterMinHealth,
                           filterSearch))
    /\ SendOther({getSummary, getHealthByStatus, getNotificationsOverTime})
    /\ UNCHANGED <<summary, pieData, records, totalPages, page, pageSize,
                   filterVars, healthVars, notifVars, topVars>>

\* next callback of loadSummary
SummaryNext(data) ==
    /\ BagIn(getSummary, otherHttp)
    /\ summary' = SomeSummary(data)
    /\ loadingSummary' = FALSE
    /\ pieData' = <<data.active_accounts, data.inactive_accounts>>
    /\ otherHttp' = Complete(getSummary)
    /\ UNCHANGED <<mounted, summaryError, summaryErrSinceIssue, recVars,
                   page, pageSize, filterVars, healthVars, notifVars, topVars,
                   recordsHttp, latest, lastAnswer, errSinceIssue>>

\* error callback of loadSummary
SummaryError ==
    /\ BagIn(getSummary, otherHttp)
    /\ summaryError' = Str("Could not load summary data")
    /\ loadingSummary' = FALSE
    /\ otherHttp' = Complete(getSummary)
    /\ summaryErrSinceIssue' = TRUE
    /\ UNCHANGED <<mounted, summary, pieData, recVars, page, pageSize,
                   filterVars, healthVars, notifVars, topVars, recordsHttp,
                   latest, lastAnswer, errSinceIssue>>

\* a next callback that drops the response of any but the latest request
RecordsNext_DropStale(i, resp) ==
    /\ i \in InFlight
    /\ IF IsLatest(i)
       THEN /\ records' = resp.items
            /\ totalPages' = resp.total_pages
            /\ topAccountsBarLabels' = TopLabels(resp.items)
            /\ topAccountsBarDatasets' = TopDatasets(resp.items)
       ELSE UNCHANGED <<records, totalPages, topVars>>
    /\ recordsLoading' = FALSE
    /\ recordsHttp' = Remove(i)
    /\ UNCHANGED otherHttp
    /\ latest' = IF IsLatest(i) THEN Fate("ok", resp) ELSE latest
    /\ lastAnswer' = <<resp>>
    /\ UNCHANGED <<mounted, summaryVars, recordsError, errSinceIssue, page,
                   pageSize, filterVars, healthVars, notifVars>>

\* next callback of loadRecords, updateTopAccountsChart() included
RecordsNext(i, resp) ==
    /\ i \in InFlight
    /\ records' = resp.items
    /\ totalPages' = resp.total_pages
    /\ recordsLoading' = FALSE
    /\ topAccountsBarLabels' = TopLabels(resp.items)
    /\ topAccountsBarDatasets' = TopDatasets(resp.items)
    /\ recordsHttp' = Remove(i)
    /\ UNCHANGED otherHttp
    /\ latest' = IF IsLatest(i) THEN Fate("ok", resp) ELSE latest
    /\ lastAnswer' = <<resp>>
    /\ UNCHANGED <<mounted, summaryVars, recordsError, errSinceIssue, page,
                   pageSize, filterVars, healthVars, notifVars>>

\* an error callback that also empties the table
RecordsError_ClearsRecords(i) ==
    /\ i \in InFlight
    /\ recordsError' = Str("Could not load account records")
    /\ recordsLoading' = FALSE
    /\ records' = <<>>
    /\ recordsHttp' = Remove(i)
    /\ UNCHANGED otherHttp
    /\ latest' = IF IsLatest(i) THEN Fate("error", NoResp) ELSE latest
    /\ errSinceIssue' = TRUE
    /\ UNCHANGED <<mounted, summaryVars, totalPages, page, pageSize,
                   filterVars, healthVars, notifVars, topVars, lastAnswer>>

\* an error callback that leaves the loading flag up
RecordsError_KeepsLoading(i) ==
    /\ i \in InFlight
    /\ recordsError' = Str("Could not load account records")
    /\ recordsHttp' = Remove(i)
    /\ UNCHANGED otherHttp
    /\ latest' = IF IsLatest(i) THEN Fate("error", NoResp) ELSE latest
    /\ errSinceIssue' = TRUE
    /\ UNCHANGED <<mounted, summaryVars, records, recordsLoading, totalPages,
                   page, pageSize, filterVars, healthVars, notifVars, topVars,
                   lastAnswer>>

\* error callback of loadRecords
RecordsError(i) ==
    /\ i \in InFlight
    /\ recordsError' = Str("Could not load account records")
    /\ recordsLoading' = FALSE
    /\ recordsHttp' = Remove(i)
    /\ UNCHANGED otherHttp
    /\ latest' = IF IsLatest(i) THEN Fate("error", NoResp) ELSE latest
    /\ errSinceIssue' = TRUE
    /\ UNCHANGED <<mounted, summaryVars, records, totalPages, page, pageSize,
                   filterVars, healthVars, notifVars, topVars, lastAnswer>>

\* the filter controls of the view write the three filter fields
SetFilters(s, h, q) ==
    /\ mounted
    /\ <<s, h, q>> # <<filterStatus, filterMinHealth, filterSearch>>
    /\ filterStatus' = s
    /\ filterMinHealth' = h
    /\ filterSearch' = q
    /\ UNCHANGED <<mounted, summaryVars, recVars, page, pageSize, healthVars,
                   notifVars, topVars, netVars>>

applyFilters ==
    /\ mounted /\ MayIssue
    /\ page' = 1
    /\ loadRecordsWith(1, filterStatus, filterMinHealth, filterSearch)
    /\ UNCHANGED <<mounted, summaryVars, records, totalPages, pageSize,
                   filterVars, healthVars, notifVars, topVars>>

\* clearFilters() without the reset of page
clearFilters_KeepsPage ==
    /\ mounted /\ MayIssue
    /\ filterStatus' = ""
    /\ filterMinHealth' = UndefinedNum
    /\ filterSearch' = ""
    /\ loadRecordsWith(page, "", UndefinedNum, "")
    /\ UNCHANGED <<mounted, summaryVars, records, totalPages, page, pageSize,
                   healthVars, notifVars, topVars>>

clearFilters ==
    /\ mounted /\ MayIssue
    /\ filterStatus' = ""
    /\ filterMinHealth' = UndefinedNum
    /\ filterSearch' = ""
    /\ page' = 1
    /\ loadRecordsWith(1, "", UndefinedNum, "")
    /\ UNCHANGED <<mounted, summaryVars, records, totalPages, pageSize,
                   healthVars, notifVars, topVars>>

\* nextPage() with the guard off by one
nextPage_GuardInclusive ==
    /\ mounted /\ MayIssue
    /\ page <= totalPages
    /\ page' = page + 1
    /\ loadRecordsWith(page + 1, filterStatus, filterMinHealth, filterSearch)
    /\ UNCHANGED <<mounted, summaryVars, records, totalPages, pageSize,
                   filterVars, healthVars, notifVars, topVars>>

\* nextPage() where the guard holds
nextPage ==
    /\ mounted /\ MayIssue
    /\ page < totalPages
    /\ page' = page + 1
    /\ loadRecordsWith(page + 1, filterStatus, filterMinHealth, filterSearch)
    /\ UNCHANGED <<mounted, summaryVars, records, totalPages, pageSize,
                   filterVars, healthVars, notifVars, topVars>>

\* nextPage() where the guard fails: the method returns without effect
nextPageNoop ==
    /\ mounted
    /\ ~(page < totalPages)
    /\ UNCHANGED vars

\* prevPage() with the guard off by one
prevPage_GuardInclusive ==
    /\ mounted /\ MayIssue
    /\ page >= 1
    /\ page' = page - 1
    /\ loadRecordsWith(page - 1, filterStatus, filterMinHealth, filterSearch)
    /\ UNCHANGED <<mounted, summaryVars, records, totalPages, pageSize,
                   filterVars, healthVars, notifVars, topVars>>

\* prevPage() where the guard holds
prevPage ==
    /\ mounted /\ MayIssue
    /\ page > 1
    /\ page' = page - 1
    /\ loadRecordsWith(page - 1, filterStatus, filterMinHealth, filterSearch)
    /\ UNCHANGED <<mounted, summaryVars, records, totalPages, pageSize,
                   filterVars, healthVars, notifVars, topVars>>

\* prevPage() where the guard fails
prevPageNoop ==
    /\ mounted
    /\ ~(page > 1)
    /\ UNCHANGED vars

\* items.map(i => i.status) and the like
statuses(items) == [k \in DOMAIN items |-> items[k].status]
accountCounts(items) == [k \in DOMAIN items |-> items[k].account_count]
dates(items) == [k \in DOMAIN items |-> items[k].date]
totalsBilled(items) ==
    [k \in DOMAIN items |-> items[k].total_notifications_billed]

\* next callback of loadHealthByStatus
HealthNext(items) ==
    /\ BagIn(getHealthByStatus, otherHttp)
    /\ healthBarLabels' = statuses(items)
    /\ healthBarDatasets' =
          <<[data |-> accountCounts(items), label |-> "Accounts"]>>
    /\ otherHttp' = Complete(getHealthByStatus)
    /\ UNCHANGED <<mounted, summaryVars, recVars, page, pageSize, filterVars,
                   notifVars, topVars, recordsHttp, latest, lastAnswer,
                   errSinceIssue>>

\* error callback of loadHealthByStatus: logs only
HealthError ==
    /\ BagIn(getHealthByStatus, otherHttp)
    /\ otherHttp' = Complete(getHealthByStatus)
    /\ UNCHANGED <<mounted, summaryVars, recVars, page, pageSize, filterVars,
                   healthVars, notifVars, topVars, recordsHttp, latest,
                   lastAnswer, errSinceIssue>>

\* next callback of loadNotificationsOverTime
NotificationsNext(items) ==
    /\ BagIn(getNotificationsOverTime, otherHttp)
    /\ notificationsLineLabels' = dates(items)
    /\ notificationsLineDatasets' =
          <<[data |-> totalsBilled(items), label |-> "Notifications Billed"]>>
    /\ otherHttp' = Complete(getNotificationsOverTime)
    /\ UNCHANGED <<mounted, summaryVars, recVars, page, pageSize, filterVars,
                   healthVars, topVars, recordsHttp, latest, lastAnswer,
                   errSinceIssue>>

\* error callback of loadNotificationsOverTime: logs only
NotificationsError ==
    /\ BagIn(getNotificationsOverTime, otherHttp)
    /\ otherHttp' = Complete(getNotificationsOverTime)
    /\ UNCHANGED <<mounted, summaryVars, recVars, page, pageSize, filterVars,
                   healthVars, notifVars, topVars, recordsHttp, latest,
                   lastAnswer, errSinceIssue>>

Next ==
    \/ ngOnInit
    \/ \E d \in SampleSummaries : SummaryNext(d)
    \/ SummaryError
    \/ \E i \in InFlight, r \in SampleResponses : RecordsNext(i, r)
    \/ \E i \in InFlight : RecordsError(i)
    \/ \E f \in SampleFilters : SetFilters(f[1], f[2], f[3])
    \/ applyFilters
    \/ clearFilters
    \/ loadSummary
    \/ loadRecords
    \/ loadHealthByStatus
    \/ loadNotificationsOverTime
    \/ nextPage
    \/ nextPageNoop
    \/ prevPage
    \/ prevPageNoop
    \/ \E items \in SampleHealth : HealthNext(items)
    \/ HealthError
    \/ \E items \in SampleNotifications : NotificationsNext(items)
    \/ NotificationsError

Spec == Init /\ [][Next]_vars

\* The same component with every combination of filter inputs, and a backend
\* that answers /records only, each time with the same two-page result (the
\* other requests stay in flight)
NextQuery ==
    \/ ngOnInit
    \/ \E f \in AllFilters : SetFilters(f[1], f[2], f[3])
    \/ \E i \in InFlight : RecordsNext(i, Resp(2, PageSix))
    \/ loadRecords
    \/ applyFilters
    \/ clearFilters
    \/ nextPage
    \/ prevPage

SpecQuery == Init /\ [][NextQuery]_vars

----------------------------------------------------------------------------
(* Vocabulary of the properties *)

ParamNames(req) == { req.params[i][1] : i \in DOMAIN req.params }
ParamValue(req, name) ==
    req.params[CHOOSE i \in DOMAIN req.params : req.params[i][1] = name][2]

\* the query string of `req` is exactly what the values p, ps, fs, fh, fq call for
ParamsMatch(req, p, ps, fs, fh, fq) ==
    /\ ParamNames(req) =
          {"page", "page_size"}
            \cup (IF fs # "" THEN {"status"} ELSE {})
            \cup (IF fh.tag = "number" THEN {"min_health"} ELSE {})
            \cup (IF fq # "" THEN {"search"} ELSE {})
    /\ Len(req.params) = Cardinality(ParamNames(req))
    /\ ParamValue(req, "page") = ToString(p)
    /\ ParamValue(req, "page_size") = ToString(ps)
    /\ fs # "" => ParamValue(req, "status") = fs
    /\ fh.tag = "number" => ParamValue(req, "min_health") = ToString(fh.val)
    /\ fq # "" => ParamValue(req, "search") = fq

\* the step put exactly one request in flight, a GET to /records, and
\* completed none
IssuedOneRecordsRequest ==
    /\ Len(recordsHttp') = Len(recordsHttp) + 1
    /\ SubSeq(recordsHttp', 1, Len(recordsHttp)) = recordsHttp
    /\ recordsHttp'[Len(recordsHttp')].method = "GET"
    /\ recordsHttp'[Len(recordsHttp')].url = RecordsUrl
    /\ otherHttp' = otherHttp

NewRequest == recordsHttp'[Len(recordsHttp')]

\* the step completed one request and put none in flight
IssuedNothing ==
    \/ /\ \E i \in InFlight : recordsHttp' = Remove(i)
       /\ otherHttp' = otherHttp
    \/ /\ \E req \in BagToSet(otherHttp) : otherHttp' = Complete(req)
       /\ recordsHttp' = recordsHttp

\* the step is the delivery of a failure / of a response (a step that
\* completes no request is neither)
RecordsFails ==
    /\ Len(recordsHttp') < Len(recordsHttp)
    /\ \E i \in InFlight : RecordsError(i)
RecordsAnswered ==
    /\ Len(recordsHttp') < Len(recordsHttp)
    /\ \E i \in InFlight, r \in SampleResponses : RecordsNext(i, r)
SummaryFails ==
    /\ otherHttp' # otherHttp
    /\ SummaryError
SummaryAnswered ==
    /\ otherHttp' # otherHttp
    /\ \E d \in SampleSummaries : SummaryNext(d)

\* every request in flight, whichever the endpoint
AllInFlight ==
    { recordsHttp[i] : i \in InFlight } \cup BagToSet(otherHttp)

\* rank of records[i] when ordered by notifications_billed descending, ties in
\* page order
Rank(recs, i) ==
    1 + Cardinality({ j \in DOMAIN recs :
            \/ recs[j].notifications_billed > recs[i].notifications_billed
            \/ /\ recs[j].notifications_billed = recs[i].notifications_billed
               /\ j < i })

Min(a, b) == IF a < b THEN a ELSE b

Endpoints == {SummaryUrl, RecordsUrl, HealthUrl, NotificationsUrl}

----------------------------------------------------------------------------
(* C1 *)

\* C1 as stated: in every reachable state 1 <= page <= totalPages.
C1_PageWithinTotalPages == 1 <= page /\ page <= totalPages

\* C1, amended: page never drops below 1, and a step that raises page
\* (nextPage) leaves it at most totalPages; page <= totalPages itself is lost
\* when a response brings a total_pages below the current page.
C1_NavigationBounded ==
    [][page >= 1 /\ page' >= 1 /\ (page' > page => page' <= totalPages')]_vars

\* nextPage has moved the component to the last page
C1_Witness ==
    /\ page = 2 /\ totalPages = 2
    /\ \E i \in InFlight : ParamValue(recordsHttp[i], "page") = "2"

----------------------------------------------------------------------------
(* C2 *)

\* C2: in every reachable state the top-accounts chart shows the first
\* min(5, |records|) records by notifications_billed descending, ties in page
\* order: entry k of the labels and of the data is the record of rank k.
C2_ChartIsTopFive ==
    /\ Len(topAccountsBarLabels) = Min(5, Len(records))
    /\ Len(topAccountsBarDatasets) = 1
    /\ Len(topAccountsBarDatasets[1].data) = Min(5, Len(records))
    /\ \A i \in DOMAIN records :
          Rank(records, i) <= 5 =>
             /\ topAccountsBarLabels[Rank(records, i)] = records[i].account_label
             /\ topAccountsBarDatasets[1].data[Rank(records, i)] =
                   records[i].notifications_billed

\* a page of six records with ties is loaded and charted, and the request
\* issued last has failed
C2_Witness ==
    /\ records = PageSix
    /\ topAccountsBarLabels = <<"b", "d", "f", "c", "a">>
    /\ topAccountsBarDatasets[1].data = <<5, 5, 4, 2, 1>>
    /\ latest.state = "error"
    /\ recordsError = Str("Could not load account records")

----------------------------------------------------------------------------
(* C3 *)

\* C3: whenever a step issues requests, every /records request among them
\* carries page and page_size, status iff filterStatus is non-empty,
\* min_health iff filterMinHealth is a number (0 included), search iff
\* filterSearch is non-empty, each with the component's value, nothing else.
C3_QueryParameters ==
    [][Len(recordsHttp') > Len(recordsHttp) =>
          \A i \in DOMAIN recordsHttp' :
             i > Len(recordsHttp) =>
                /\ recordsHttp'[i].url = RecordsUrl
                /\ ParamsMatch(recordsHttp'[i], page', pageSize',
                               filterStatus', filterMinHealth',
                               filterSearch')]_vars

\* in flight are a request with min_health=0 and no status, and after it one
\* issued with a null min health and a search
C3_Witness ==
    \E i, j \in InFlight :
        /\ i < j
        /\ ParamNames(recordsHttp[i]) = {"page", "page_size", "min_health"}
        /\ ParamValue(recordsHttp[i], "min_health") = "0"
        /\ ParamNames(recordsHttp[j]) = {"page", "page_size", "search"}
        /\ filterMinHealth = NullNum

----------------------------------------------------------------------------
(* C4 *)

\* C4 as stated: once every /records request has been delivered, records and
\* totalPages are those of the response to the most recently issued request.
C4_LatestIssuedWins ==
    (InFlight = {} /\ latest.state = "ok") =>
        /\ records = latest.resp.items
        /\ totalPages = latest.resp.total_pages

\* C4, amended: records and totalPages are always those of the response that
\* was delivered last, whichever request it answers (the initial values while
\* none has been delivered).
C4_LatestDeliveredWins ==
    IF lastAnswer = <<>>
    THEN records = <<>> /\ totalPages = 1
    ELSE /\ records = lastAnswer[1].items
         /\ totalPages = lastAnswer[1].total_pages

\* two overlapping requests were answered out of order with different
\* responses, and nothing is in flight any more
C4_Witness ==
    /\ InFlight = {}
    /\ latest.state = "ok"
    /\ lastAnswer # <<latest.resp>>

----------------------------------------------------------------------------
(* C5 *)

\* C5: a failed /records request sets recordsError to its message and
\* recordsLoading to false, issues nothing, and leaves records, totalPages,
\* page, the filters and the top-accounts chart alone; a failed /summary
\* request sets summaryError and loadingSummary likewise, issues nothing and
\* leaves summary and pieData alone.
C5_FailuresSurfaced ==
    [][/\ RecordsFails =>
             /\ recordsError' = Str("Could not load account records")
             /\ recordsLoading' = FALSE
             /\ IssuedNothing
             /\ UNCHANGED <<records, totalPages, page, filterVars, topVars>>
       /\ SummaryFails =>
             /\ summaryError' = Str("Could not load summary data")
             /\ loadingSummary' = FALSE
             /\ IssuedNothing
             /\ UNCHANGED <<summary, pieData>>]_vars

\* a /records request has failed after a page was loaded, and the /summary
\* request has failed
C5_Witness ==
    /\ records # <<>>
    /\ errSinceIssue
    /\ recordsError = Str("Could not load account records")
    /\ ~recordsLoading
    /\ summaryError = Str("Could not load summary data")
    /\ ~loadingSummary
    /\ summary = NoSummary

----------------------------------------------------------------------------
(* C6 *)

\* C6: nextPage with page >= totalPages and prevPage with page <= 1 change
\* nothing; otherwise they move page by exactly one and issue exactly one
\* /records request carrying the new page, pageSize and filters unchanged.
C6_GuardedSingleSteps ==
    [][/\ (nextPage \/ nextPageNoop) =>
             IF page >= totalPages THEN UNCHANGED vars
             ELSE /\ page' = page + 1
                  /\ IssuedOneRecordsRequest
                  /\ ParamValue(NewRequest, "page") = ToString(page + 1)
                  /\ UNCHANGED <<pageSize, filterVars>>
       /\ (prevPage \/ prevPageNoop) =>
             IF page <= 1 THEN UNCHANGED vars
             ELSE /\ page' = page - 1
                  /\ IssuedOneRecordsRequest
                  /\ ParamValue(NewRequest, "page") = ToString(page - 1)
                  /\ UNCHANGED <<pageSize, filterVars>>]_vars

\* the requests of a nextPage and of the prevPage after it are in flight,
\* both with the filters set; the component is back on page 1 of 2
C6_Witness ==
    /\ page = 1 /\ totalPages = 2
    /\ \E i, j \in InFlight :
          /\ i < j
          /\ ParamValue(recordsHttp[i], "page") = "2"
          /\ ParamValue(recordsHttp[j], "page") = "1"
          /\ recordsHttp[i].params = ParamsSet(recordsHttp[j].params, "page", "2")
          /\ "status" \in ParamNames(recordsHttp[i])

----------------------------------------------------------------------------
(* C7 *)

\* C7: applyFilters sets page to 1, keeps the three filters and issues exactly
\* one /records request with page=1 and the current filters; clearFilters
\* resets the three filters and page and issues exactly one /records request
\* with page=1 and no status, min_health or search.
C7_FiltersResetPagination ==
    [][/\ applyFilters =>
             /\ page' = 1
             /\ UNCHANGED filterVars
             /\ IssuedOneRecordsRequest
             /\ ParamsMatch(NewRequest, 1, pageSize, filterStatus,
                            filterMinHealth, filterSearch)
       /\ clearFilters =>
             /\ page' = 1
             /\ filterStatus' = ""
             /\ filterMinHealth' = UndefinedNum
             /\ filterSearch' = ""
             /\ IssuedOneRecordsRequest
             /\ NewRequest.params =
                   <<<<"page", "1">>, <<"page_size", ToString(pageSize)>>>>]_vars

\* clearFilters ran on page 2 with all three filters set: the request of
\* that page and the one clearFilters issued are in flight
C7_Witness ==
    /\ \E i, j \in InFlight :
          /\ i < j
          /\ ParamNames(recordsHttp[i]) =
                {"page", "page_size", "status", "min_health", "search"}
          /\ ParamValue(recordsHttp[i], "page") = "2"
          /\ recordsHttp[j].params = <<<<"page", "1">>, <<"page_size", "5">>>>
    /\ page = 1
    /\ <<filterStatus, filterMinHealth, filterSearch>> = <<"", UndefinedNum, "">>

----------------------------------------------------------------------------
(* C8 *)

\* C8: the step that mounts the component issues exactly four requests, one
\* GET to each endpoint, the /records one with page=1, page_size=5 and nothing
\* else; and every request ever in flight is a GET to one of the four
\* endpoints.
C8_MountRequests ==
    /\ [](\A req \in AllInFlight :
             req.method = "GET" /\ req.url \in Endpoints)
    /\ [](\A i \in InFlight : recordsHttp[i].url = RecordsUrl)
    /\ [][(~mounted /\ mounted') =>
             /\ recordsHttp = <<>> /\ otherHttp = EmptyBag
             /\ Len(recordsHttp') = 1
             /\ recordsHttp'[1].method = "GET"
             /\ recordsHttp'[1].url = RecordsUrl
             /\ recordsHttp'[1].params =
                   <<<<"page", "1">>, <<"page_size", "5">>>>
             /\ BagCardinality(otherHttp') = 3
             /\ { req.url : req \in BagToSet(otherHttp') } =
                   Endpoints \ {RecordsUrl}
             /\ \A req \in BagToSet(otherHttp') : req.method = "GET"]_vars

\* the component has just been mounted: its four requests are in flight
C8_Witness ==
    /\ mounted
    /\ Len(recordsHttp) = 1
    /\ BagCardinality(otherHttp) = 3
    /\ { req.url : req \in AllInFlight } = Endpoints
    /\ loadingSummary /\ recordsLoading

----------------------------------------------------------------------------
(* C9 *)

\* C9 as stated: recordsLoading is true exactly when some /records request
\* is outstanding.
C9_LoadingIffOutstanding == recordsLoading <=> InFlight # {}

\* C9, amended: recordsLoading is true only while some /records request is
\* outstanding; it is false after any delivery, also while other /records
\* requests are still outstanding.
C9_LoadingImpliesOutstanding == recordsLoading => InFlight # {}

\* the flag is up while two /records requests overlap
C9_Witness ==
    /\ recordsLoading
    /\ Cardinality(InFlight) = 2

----------------------------------------------------------------------------
(* C10 *)

\* C10 as stated: right after a /records response is applied recordsError is
\* undefined, and right after a /summary response is applied summaryError is
\* undefined.
C10_NoStaleError ==
    [][/\ RecordsAnswered => recordsError' = UndefinedStr
       /\ SummaryAnswered => summaryError' = UndefinedStr]_vars

\* C10, amended: right after a /records response is applied recordsError is
\* undefined unless a /records request has failed since the most recent one
\* was issued (then the message of that failure stays); likewise right after
\* a /summary response is applied summaryError is undefined unless a /summary
\* request has failed since the most recent one was issued.
C10_NoStaleErrorUnlessLaterFailure ==
    [][/\ (recordsError' = UndefinedStr <=> ~errSinceIssue)
             \/ ~RecordsAnswered
       /\ (summaryError' = UndefinedStr <=> ~summaryErrSinceIssue)
             \/ ~SummaryAnswered]_vars

\* the response to the request issued last has been applied to a component
\* on page 2, no failure since that request was issued, and the summary is
\* loaded with no /summary failure since the last loadSummary()
C10_Witness ==
    /\ latest.state = "ok" /\ lastAnswer = <<latest.resp>>
    /\ InFlight = {}
    /\ page = 2
    /\ ~errSinceIssue /\ recordsError = UndefinedStr
    /\ summary.tag = "object" /\ ~summaryErrSinceIssue
    /\ summaryError = UndefinedStr
    /\ Outstanding(getSummary) = 0

====
